---- MODULE Spec2Model ----
(***************************************************************************)
(* A model of the SPI master driver of mat91lib (src/spi/spi.c): the       *)
(* device pool, the configuration cache (spi_config_last), the chip-select *)
(* handling and the polled word transfer, together with the registers of   *)
(* the SPI controller and the chip-select pins the driver writes.          *)
(*                                                                         *)
(* A public call is modelled as a process: the call action runs the code   *)
(* up to its first busy-wait (or to its return), XferWrite / HwComplete /  *)
(* XferRead are the steps of one SPI_XFER inside the word loop, and Return *)
(* hands control back to the caller.  While a call is in progress no other *)
(* call starts (the calls are serialized, as section 5 of the spec asks).  *)
(*                                                                         *)
(* Hardware assumptions (from the controller's data sheet, not from the    *)
(* driver): a software reset (SWRST) clears the mode register and the chip *)
(* select registers; a register write takes effect when it is made.        *)
(***************************************************************************)
EXTENDS Integers, Sequences, FiniteSets, TLC

(* ------------------------------------------------------------------ *)
(* Bounds of the model                                                 *)
(* ------------------------------------------------------------------ *)

\* Capacity of the device pool (config.h may set it; spi.c defaults to 8).
SPI_DEVICES_NUM == 2

\* Longest transfer length (in bytes) a caller asks for.
MaxLen == 2

\* Number of setter calls made in one run that may call every setter.
MaxSetterCalls == 1

\* Number of spi_cs_mode_set calls made in one run that calls no other setter.
MaxCsModeCalls == 2

\* The largest channel id spi_channel_select is applied to.
MaxChannel == 15

(* ------------------------------------------------------------------ *)
(* Program constants                                                   *)
(* ------------------------------------------------------------------ *)

SPI_CHANNELS_NUM == 4

\* pio_config_t
PIO_INPUT == 1
PIO_OUTPUT_LOW == 4
PIO_OUTPUT_HIGH == 5
PIO_PERIPH_A == 6
PIO_PERIPH_B == 7

\* enum {PERIPH_A = 0, PERIPH_B}
PERIPH_A == 0
PERIPH_B == 1

\* enum {PORT_A, PORT_B, PORT_C}
PORT_A == 0
PORT_B == 1

\* The null handle / null pointer.
NULL == 0

PIO_DEFINE(port, portbit) == port * 32 + portbit

SPI_CS(channel, pio, periph) == [channel |-> channel, pio |-> pio, periph |-> periph]

\* The AT91SAM7S table (one controller).
spi_cs ==
    << SPI_CS(0, PIO_DEFINE(PORT_A, 11), PERIPH_A),
       SPI_CS(1, PIO_DEFINE(PORT_A, 9), PERIPH_B),
       SPI_CS(1, PIO_DEFINE(PORT_A, 31), PERIPH_A),
       SPI_CS(2, PIO_DEFINE(PORT_A, 10), PERIPH_B),
       SPI_CS(2, PIO_DEFINE(PORT_A, 30), PERIPH_B),
       SPI_CS(3, PIO_DEFINE(PORT_A, 3), PERIPH_B),
       SPI_CS(3, PIO_DEFINE(PORT_A, 5), PERIPH_B),
       SPI_CS(3, PIO_DEFINE(PORT_A, 22), PERIPH_B) >>

SPI_CS_NUM == Len(spi_cs)

(* ------------------------------------------------------------------ *)
(* Inputs of the model                                                 *)
(* ------------------------------------------------------------------ *)

CsModes == {"TOGGLE", "FRAME", "HIGH"}

\* The chip-select pins a board wires up: PA11 is the NPCS0 pin, PA9 an NPCS1
\* pin, PA20 is on no channel's list, PA10 is listed for channel 2 only.
PA11 == PIO_DEFINE(PORT_A, 11)
PA9 == PIO_DEFINE(PORT_A, 9)
PA20 == PIO_DEFINE(PORT_A, 20)
PA10 == PIO_DEFINE(PORT_A, 10)
Pins == {PA11, PA9, PA20, PA10}

\* The configurations (spi_cfg_t) a board creates its devices from: automatic
\* and bit-banged chip selects, 8 and 16 bit words, on two channels.
\* cs_mode and the two delays are the framing mode and the delays asked for at
\* creation; spi_init reads neither.
Cfgs ==
    { [channel |-> 0, cs |-> PA11, mode |-> 0, bits |-> 0, clock_divisor |-> 0,
       cs_mode |-> "TOGGLE", cs_assert_delay |-> 0, cs_negate_delay |-> 0],
      [channel |-> 0, cs |-> PA20, mode |-> 3, bits |-> 16, clock_divisor |-> 2,
       cs_mode |-> "FRAME", cs_assert_delay |-> 1, cs_negate_delay |-> 33],
      [channel |-> 1, cs |-> PA10, mode |-> 1, bits |-> 8, clock_divisor |-> 1,
       cs_mode |-> "HIGH", cs_assert_delay |-> 0, cs_negate_delay |-> 0],
      [channel |-> 1, cs |-> PA9, mode |-> 2, bits |-> 16, clock_divisor |-> 3,
       cs_mode |-> "TOGGLE", cs_assert_delay |-> 2, cs_negate_delay |-> 64] }

(* ------------------------------------------------------------------ *)
(* State                                                               *)
(* ------------------------------------------------------------------ *)

VARIABLES
    spi_devices_num,      \* number of devices created
    spi_devices,          \* the created devices: a sequence of records
    spi_config_last,      \* the device the channel registers are set for, or NULL
    spi_devices_enabled,  \* the set of the bits set in the mask
    SPI,                  \* the controller: mr, csr[0..3], spien, rdrf, rdr, tdr
    PMC,                  \* TRUE when the peripheral clock of the SPI is enabled
    PIO,                  \* cs: configuration of each pin; bus: of MISO/MOSI/SPCK
    call,                 \* the call in progress
    mem,                  \* the caller's buffers
    log,                  \* the hardware accesses of the call in progress
    miso,                 \* what the bus answers: "loopback" or "high"
    setters_left,         \* number of setter calls the run may still make
    chain                 \* the device whose unterminated FRAME transfer, begun
                          \* with the chip select released, was the last call
                          \* to return, or NULL

vars == << spi_devices_num, spi_devices, spi_config_last, spi_devices_enabled,
           SPI, PMC, PIO, call, mem, log, miso, setters_left, chain >>

(* ------------------------------------------------------------------ *)
(* The machine: driver data and hardware as one value the C functions  *)
(* transform                                                           *)
(* ------------------------------------------------------------------ *)

M ==
    [ num |-> spi_devices_num, devs |-> spi_devices, last |-> spi_config_last,
      enabled |-> spi_devices_enabled, spi |-> SPI, pmc |-> PMC, pio |-> PIO,
      log |-> log ]

Commit(m) ==
    /\ spi_devices_num' = m.num
    /\ spi_devices' = m.devs
    /\ spi_config_last' = m.last
    /\ spi_devices_enabled' = m.enabled
    /\ SPI' = m.spi
    /\ PMC' = m.pmc
    /\ PIO' = m.pio
    /\ log' = m.log

\* One hardware access: a register or pin, its index, the value written.
\* clk tells whether the peripheral clock of the SPI was enabled at that moment.
Ev(reg, idx, val, clk) == [reg |-> reg, idx |-> idx, val |-> val, clk |-> clk]

Logged(m, reg, idx, val) == [m EXCEPT !.log = Append(@, Ev(reg, idx, val, m.pmc))]

Pow2(n) == 2 ^ n

\* BITS_INSERT (reg, val, first, last) of bits.h: the field keeps the low
\* last - first + 1 bits of val.
BITS_INSERT(val, first, last) == val % Pow2(last - first + 1)

CsrZero ==
    [csaat |-> 0, cpol |-> 0, ncpha |-> 0, bits |-> 0, scbr |-> 0,
     dlybs |-> 0, dlybct |-> 0]

MrZero == [mstr |-> 0, modfdis |-> 0, ps |-> 0, pcs |-> 0]

ChanIdx(channel) == channel % SPI_CHANNELS_NUM

\* The mask without the reduction of the channel to 0..3: bit 4 and above fall
\* outside the four bits of the field, which is then all ones.
SPI_CHANNEL_MASK_unreduced(channel) ==
    IF channel < SPI_CHANNELS_NUM THEN 15 - Pow2(channel) ELSE 15

SPI_CHANNEL_MASK(channel) == 15 - Pow2(ChanIdx(channel))

spi_channel_csr_get(m, channel) == m.spi.csr[ChanIdx(channel)]

\* A write of one chip select register; the log names the field written.
spi_channel_csr_set(m, channel, csr, field, val) ==
    Logged([m EXCEPT !.spi.csr[ChanIdx(channel)] = csr],
           field, ChanIdx(channel), val)

spi_channel_delay_set(m, channel, delay) ==
    LET csr == spi_channel_csr_get(m, channel)
        v == BITS_INSERT(delay, 24, 31)
    IN spi_channel_csr_set(m, channel, [csr EXCEPT !.dlybct = v], "CSR.DLYBCT", v)

spi_channel_clock_delay_set(m, channel, delay) ==
    LET csr == spi_channel_csr_get(m, channel)
        v == BITS_INSERT(delay, 16, 23)
    IN spi_channel_csr_set(m, channel, [csr EXCEPT !.dlybs = v], "CSR.DLYBS", v)

spi_channel_clock_divisor_set(m, channel, clock_divisor) ==
    LET csr == spi_channel_csr_get(m, channel)
        v == BITS_INSERT(clock_divisor, 8, 15)
    IN spi_channel_csr_set(m, channel, [csr EXCEPT !.scbr = v], "CSR.SCBR", v)

spi_channel_bits_set(m, channel, bits) ==
    LET csr == spi_channel_csr_get(m, channel)
        v == BITS_INSERT(bits - 8, 4, 7)
    IN spi_channel_csr_set(m, channel, [csr EXCEPT !.bits = v], "CSR.BITS", v)

\* CPOL and NCPHA of a clock mode.
ModeCpol(mode) == IF mode \in {2, 3} THEN 1 ELSE 0

ModeNcpha(mode) == IF mode \in {0, 2} THEN 1 ELSE 0

spi_channel_mode_set(m, channel, mode) ==
    LET csr == spi_channel_csr_get(m, channel)
    IN spi_channel_csr_set(m, channel,
           [csr EXCEPT !.cpol = ModeCpol(mode), !.ncpha = ModeNcpha(mode)],
           "CSR.MODE", mode)

spi_channel_cs_mode_set(m, channel, mode) ==
    LET csr == spi_channel_csr_get(m, channel)
        v == IF mode = "FRAME" THEN 1 ELSE 0
    IN spi_channel_csr_set(m, channel, [csr EXCEPT !.csaat = v], "CSR.CSAAT", v)

\* The search of the table matching the pin alone.
spi_channel_cs_config_get_anychannel(channel, cs) ==
    LET hits == {i \in 1..SPI_CS_NUM : cs = spi_cs[i].pio}
    IN IF hits = {} THEN PIO_OUTPUT_HIGH
       ELSE LET i == CHOOSE j \in hits : \A k \in hits : j <= k
            IN IF spi_cs[i].periph = PERIPH_A THEN PIO_PERIPH_A ELSE PIO_PERIPH_B

\* The search of the table answering peripheral A for every entry.
spi_channel_cs_config_get_periphA(channel, cs) ==
    LET hits == {i \in 1..SPI_CS_NUM :
                    /\ channel = spi_cs[i].channel
                    /\ cs = spi_cs[i].pio}
    IN IF hits = {} THEN PIO_OUTPUT_HIGH ELSE PIO_PERIPH_A

spi_channel_cs_config_get(channel, cs) ==
    LET hits == {i \in 1..SPI_CS_NUM :
                    /\ channel = spi_cs[i].channel
                    /\ cs = spi_cs[i].pio}
    IN IF hits = {} THEN PIO_OUTPUT_HIGH
       ELSE LET i == CHOOSE j \in hits : \A k \in hits : j <= k
            IN IF spi_cs[i].periph = PERIPH_A THEN PIO_PERIPH_A ELSE PIO_PERIPH_B

\* spi_update without the invalidation of the cache.
spi_update_never(m, spi) == m

\* spi_update clearing the cache whichever device was changed.
spi_update_always(m, spi) == [m EXCEPT !.last = NULL]

spi_update(m, spi) ==
    IF spi = m.last THEN [m EXCEPT !.last = NULL] ELSE m

Dev(m, spi) == m.devs[spi]

SetField(m, spi, d) == [m EXCEPT !.devs[spi] = d]

\* spi_clock_divisor_set without the test for zero.
spi_clock_divisor_set_unguarded(m, spi, clock_divisor) ==
    spi_update(SetField(m, spi, [Dev(m, spi) EXCEPT !.clock_divisor = clock_divisor]), spi)

spi_clock_divisor_set(m, spi, clock_divisor) ==
    LET cd == IF clock_divisor = 0 THEN 1 ELSE clock_divisor
    IN spi_update(SetField(m, spi, [Dev(m, spi) EXCEPT !.clock_divisor = cd]), spi)

\* The CPU clock of config.h, in Hz.
F_CPU == 48000000

\* uint32_t arithmetic. A uint32_t is written as the 32 bit two's complement
\* integer with the same bits: a value v above 2^31 - 1 is written v - 2^32.
LtU32(a, b) == IF (a < 0) = (b < 0) THEN a < b ELSE b < 0

\* a + b modulo 2^32
AddU32(a, b) ==
    LET MaxInt == 2147483647
    IN IF a >= 0 /\ b >= 0 /\ a > MaxInt - b
       THEN (a - MaxInt - 1) + (b - MaxInt - 1)
       ELSE IF a < 0 /\ b < 0 /\ a < (-MaxInt - 1) - b
            THEN (a + MaxInt + 1) + (b + MaxInt + 1)
            ELSE a + b

\* a / b of unsigned operands, b # 0
DivU32(a, b) ==
    LET MaxInt == 2147483647
        half == ((a + MaxInt + 1) \div 2) + 1073741824
        bit0 == (a + MaxInt + 1) % 2
        q1 == half \div b
        r1 == half % b
    IN IF b < 0 THEN (IF LtU32(a, b) THEN 0 ELSE 1)
       ELSE IF a >= 0 THEN a \div b
       ELSE IF b = 1 THEN a
       ELSE 2 * q1 + (IF r1 >= (b - bit0) - r1 THEN 1 ELSE 0)

\* The conversion of a uint32_t to spi_clock_divisor_t, taken as 16 bits wide.
ToDivisor(v) == IF v >= 0 THEN v % 65536 ELSE (v + 2147483647 + 1) % 65536

\* (F_CPU + clock_speed - 1) / clock_speed in uint32_t, passed as the divisor.
spi_clock_speed_set(m, spi, clock_speed) ==
    spi_clock_divisor_set(m, spi,
        ToDivisor(DivU32(AddU32(AddU32(F_CPU, clock_speed), -1), clock_speed)))

spi_cs_negate_delay_set(m, spi, delay) ==
    spi_update(SetField(m, spi, [Dev(m, spi) EXCEPT !.cs_negate_delay = delay]), spi)

spi_cs_assert_delay_set(m, spi, delay) ==
    spi_update(SetField(m, spi, [Dev(m, spi) EXCEPT !.cs_assert_delay = delay]), spi)

spi_bits_set(m, spi, bits) ==
    spi_update(SetField(m, spi, [Dev(m, spi) EXCEPT !.bits = bits]), spi)

spi_mode_set(m, spi, mode) ==
    spi_update(SetField(m, spi, [Dev(m, spi) EXCEPT !.mode = mode]), spi)

spi_cs_mode_set(m, spi, mode) ==
    spi_update(SetField(m, spi, [Dev(m, spi) EXCEPT !.cs_mode = mode]), spi)

\* SPI_CR = SWRST: the controller returns to its reset state (slave mode).
spi_reset(m) ==
    Logged([m EXCEPT !.spi = [mr |-> MrZero,
                              csr |-> [c \in 0..(SPI_CHANNELS_NUM - 1) |-> CsrZero],
                              spien |-> FALSE, rdrf |-> FALSE, rdr |-> 0, tdr |-> 0]],
           "CR.SWRST", 0, 1)

spi_enable(m) == Logged([m EXCEPT !.spi.spien = TRUE], "CR.SPIEN", 0, 1)

spi_disable(m) == Logged([m EXCEPT !.spi.spien = FALSE], "CR.SPIDIS", 0, 1)

\* SPI_MR = MSTR | MODFDIS
spi_setup(m) ==
    Logged([m EXCEPT !.spi.mr = [mstr |-> 1, modfdis |-> 1, ps |-> 0, pcs |-> 0]],
           "MR", 0, 0)

spi_channel_select(m, channel) ==
    LET m1 == Logged([m EXCEPT !.spi.mr.ps = 0], "MR.PS", 0, 0)
        v == BITS_INSERT(SPI_CHANNEL_MASK(channel), 16, 19)
    IN Logged([m1 EXCEPT !.spi.mr.pcs = v], "MR.PCS", 0, v)

\* pio_config_set: the pin takes the configuration asked for.
pio_config_set(m, pio, config) ==
    Logged([m EXCEPT !.pio.cs[pio] = config], "PIO", pio, config)

\* spi_cs_assert without the test of cs_active.
spi_cs_assert_again(m, spi) ==
    LET d == Dev(m, spi)
        m1 == SetField(m, spi, [d EXCEPT !.cs_active = TRUE])
    IN IF d.cs_mode = "HIGH" THEN m
       ELSE IF d.cs_config = PIO_OUTPUT_HIGH
            THEN pio_config_set(m1, d.cs, PIO_OUTPUT_LOW)
            ELSE pio_config_set(m1, d.cs, d.cs_config)

spi_cs_assert(m, spi) ==
    LET d == Dev(m, spi)
        m1 == SetField(m, spi, [d EXCEPT !.cs_active = TRUE])
    IN IF d.cs_active \/ d.cs_mode = "HIGH" THEN m
       ELSE IF d.cs_config = PIO_OUTPUT_HIGH
            THEN pio_config_set(m1, d.cs, PIO_OUTPUT_LOW)
            ELSE pio_config_set(m1, d.cs, d.cs_config)

spi_cs_negate(m, spi) ==
    LET m1 == pio_config_set(m, Dev(m, spi).cs, PIO_OUTPUT_HIGH)
    IN SetField(m1, spi, [Dev(m1, spi) EXCEPT !.cs_active = FALSE])

\* The seven register programming steps of spi_config, in order.
ConfigWrites(m, spi) ==
    LET d == Dev(m, spi)
        m1 == spi_channel_select(m, d.channel)
        m2 == spi_channel_cs_mode_set(m1, d.channel, d.cs_mode)
        m3 == spi_channel_mode_set(m2, d.channel, d.mode)
        m4 == spi_channel_bits_set(m3, d.channel, d.bits)
        m5 == spi_channel_clock_divisor_set(m4, d.channel, d.clock_divisor)
        m6 == spi_channel_clock_delay_set(m5, d.channel, d.cs_assert_delay)
    IN spi_channel_delay_set(m6, d.channel, (d.cs_negate_delay + 31) \div 32)

\* spi_config that programs the registers without recording the device.
spi_config_norecord(m, spi) ==
    IF spi = m.last THEN m ELSE ConfigWrites(m, spi)

\* spi_config without the test of the cache.
spi_config_always(m, spi) == ConfigWrites([m EXCEPT !.last = spi], spi)

\* spi_config that skips the programming when the cached device has the same
\* settings as the device asked for.
spi_config_lazy(m, spi) ==
    IF spi = m.last THEN m
    ELSE IF m.last # NULL /\ Dev(m, m.last) = Dev(m, spi)
         THEN [m EXCEPT !.last = spi]
         ELSE ConfigWrites([m EXCEPT !.last = spi], spi)

spi_config(m, spi) ==
    IF spi = m.last THEN m
    ELSE ConfigWrites([m EXCEPT !.last = spi], spi)

\* Bring-up of the controller, done by the first device to wake.
WakeupHardware(m) ==
    LET m1 == Logged([m EXCEPT !.pio.bus = PIO_PERIPH_A], "PIO.BUS", 0, PIO_PERIPH_A)
        m2 == Logged([m1 EXCEPT !.pmc = TRUE], "PMC.PCER", 0, 1)
    IN spi_enable(spi_setup(spi_reset(m2)))

\* spi_wakeup putting the framing mode of its device back to the default.
spi_wakeup_defaults(m, spi) ==
    IF spi \in m.enabled THEN m
    ELSE LET wakeup == (m.enabled = {})
             m0 == SetField(m, spi, [Dev(m, spi) EXCEPT !.cs_mode = "TOGGLE"])
             m1 == [m0 EXCEPT !.enabled = @ \cup {spi}]
         IN IF ~wakeup THEN m1 ELSE WakeupHardware(m1)

spi_wakeup(m, spi) ==
    IF spi \in m.enabled THEN m
    ELSE LET wakeup == (m.enabled = {})
             m1 == [m EXCEPT !.enabled = @ \cup {spi}]
         IN IF ~wakeup THEN m1 ELSE WakeupHardware(m1)

\* The tear-down without the loop over the chip-select pins.
AllCsLow_skipped(m, i) == m

\* for (i = 0; i < spi_devices_num; i++) pio_config_set (cs, PIO_OUTPUT_LOW)
RECURSIVE AllCsLow(_, _)
AllCsLow(m, i) ==
    IF i > m.num THEN m
    ELSE AllCsLow(pio_config_set(m, Dev(m, i).cs, PIO_OUTPUT_LOW), i + 1)

\* The tear-down without the write of PMC_PCDR.
ShutdownHardware_clocked(m) ==
    LET m1 == spi_disable(m)
        m2 == Logged([m1 EXCEPT !.pio.bus = PIO_OUTPUT_LOW], "PIO.BUS", 0, PIO_OUTPUT_LOW)
    IN AllCsLow(m2, 1)

\* Tear-down of the controller, done by the last device to shut down.
ShutdownHardware(m) ==
    LET m1 == spi_disable(m)
        m2 == Logged([m1 EXCEPT !.pio.bus = PIO_OUTPUT_LOW], "PIO.BUS", 0, PIO_OUTPUT_LOW)
        m3 == Logged([m2 EXCEPT !.pmc = FALSE], "PMC.PCDR", 0, 1)
    IN AllCsLow(m3, 1)

\* spi_shutdown without the test of the devices still enabled.
spi_shutdown_unconditional(m, spi) ==
    IF spi \notin m.enabled THEN m
    ELSE ShutdownHardware([m EXCEPT !.enabled = @ \ {spi}, !.last = NULL])

\* spi_shutdown without the test of the device's bit.
spi_shutdown_unchecked(m, spi) ==
    LET m1 == [m EXCEPT !.enabled = @ \ {spi}, !.last = NULL]
    IN IF m1.enabled # {} THEN m1 ELSE ShutdownHardware(m1)

\* spi_shutdown clearing the cache only in the tear-down.
spi_shutdown_keepscache(m, spi) ==
    IF spi \notin m.enabled THEN m
    ELSE LET m1 == [m EXCEPT !.enabled = @ \ {spi}]
         IN IF m1.enabled # {} THEN m1
            ELSE ShutdownHardware([m1 EXCEPT !.last = NULL])

spi_shutdown(m, spi) ==
    IF spi \notin m.enabled THEN m
    ELSE LET m1 == [m EXCEPT !.enabled = @ \ {spi}, !.last = NULL]
         IN IF m1.enabled # {} THEN m1 ELSE ShutdownHardware(m1)

\* The record of a device as spi_init fills it in, field by field.
NewDev(cfg) ==
    [channel |-> cfg.channel, cs |-> cfg.cs, cs_config |-> 0, cs_mode |-> "TOGGLE",
     mode |-> 0, bits |-> 0, clock_divisor |-> 0, cs_assert_delay |-> 0,
     cs_negate_delay |-> 0, cs_active |-> FALSE]

\* spi_init past the capacity test; the handle is the new spi_devices_num.
InitDevice(m, cfg) ==
    LET spi == m.num + 1
        m0 == [m EXCEPT !.num = spi, !.devs = Append(@, NewDev(cfg))]
        m1 == spi_channel_csr_set(m0, cfg.channel, CsrZero, "CSR", 0)
        m2 == spi_cs_mode_set(m1, spi, "TOGGLE")
        m3 == SetField(m2, spi, [Dev(m2, spi) EXCEPT !.cs_config =
                  spi_channel_cs_config_get(cfg.channel, cfg.cs)])
        m4 == spi_cs_negate(m3, spi)
        m5 == spi_cs_assert_delay_set(m4, spi, 0)
        m6 == spi_cs_negate_delay_set(m5, spi, 0)
        m7 == spi_mode_set(m6, spi, cfg.mode)
        m8 == spi_bits_set(m7, spi, IF cfg.bits # 0 THEN cfg.bits ELSE 8)
        m9 == spi_clock_divisor_set(m8, spi,
                  IF cfg.clock_divisor # 0 THEN cfg.clock_divisor ELSE 128)
    IN spi_wakeup(m9, spi)

(* ------------------------------------------------------------------ *)
(* The word transfer                                                   *)
(* ------------------------------------------------------------------ *)

IdleCall ==
    [pc |-> "idle", op |-> "none", spi |-> NULL, len |-> 0, terminate |-> FALSE,
     i |-> 0, buf |-> "none", ret |-> 0, last0 |-> NULL, active0 |-> FALSE,
     enabled0 |-> {}, arg |-> NULL, irq |-> NULL]

NoMem == [tx |-> << >>, rx |-> << >>, oob |-> FALSE]

\* What the caller put in its buffers before the call.
TxByte(k) == IF k % 2 = 1 THEN 85 ELSE 170

RxFill(k) == k

\* buf is "both", "write" (rxbuffer is null) or "read" (txbuffer is null).
CallerMem(len, buf) ==
    [tx |-> IF buf = "read" THEN << >> ELSE [k \in 1..len |-> TxByte(k)],
     rx |-> IF buf = "write" THEN << >> ELSE [k \in 1..len |-> RxFill(k)],
     oob |-> FALSE]

\* spi_transfer: if (spi->bits <= 8) spi_transfer_8 else spi_transfer_16
Wide(m, spi) == Dev(m, spi).bits > 8

Automatic(m, spi) == Dev(m, spi).cs_config # PIO_OUTPUT_HIGH

\* The stride of spi_transfer_16 used on both paths.
Stride_always2(m, spi) == 2

\* Bytes the loop advances by for one word.
Stride(m, spi) == IF Wide(m, spi) THEN 2 ELSE 1

\* spi_transfer_8 / spi_transfer_16 from spi_config to the head of the loop.
TransferEnter(m, spi) ==
    LET m1 == spi_config(m, spi)
    IN IF Automatic(m1, spi) THEN spi_cs_assert(m1, spi)
       ELSE IF Dev(m1, spi).cs_mode = "FRAME" THEN spi_cs_assert(m1, spi)
       ELSE m1

SPI_LASTXFER(m) == Logged(m, "CR.LASTXFER", 0, 1)

\* The loop body syncing the registers again before every word.
PreWord_resync(m, c) ==
    LET m0 == spi_config(m, c.spi)
        last == c.terminate /\ c.i >= c.len - 1
    IN IF Automatic(m0, c.spi)
       THEN IF ~last THEN m0
            ELSE IF Wide(m0, c.spi) THEN SPI_LASTXFER(m0) ELSE spi_cs_negate(m0, c.spi)
       ELSE IF Dev(m0, c.spi).cs_mode = "TOGGLE" THEN spi_cs_assert(m0, c.spi)
       ELSE m0

\* The loop body before SPI_XFER.
PreWord(m, c) ==
    LET last == c.terminate /\ c.i >= c.len - 1
    IN IF Automatic(m, c.spi)
       THEN IF ~last THEN m
            ELSE IF Wide(m, c.spi) THEN SPI_LASTXFER(m) ELSE spi_cs_negate(m, c.spi)
       ELSE IF Dev(m, c.spi).cs_mode = "TOGGLE" THEN spi_cs_assert(m, c.spi)
       ELSE m

\* SPI_XFER up to the busy-wait: the dummy read of RDR, then the write of TDR.
XferStart(m, tx) ==
    LET m1 == Logged([m EXCEPT !.spi.rdrf = FALSE], "RDR.dummy", 0, m.spi.rdr)
    IN Logged([m1 EXCEPT !.spi.tdr = tx], "TDR", 0, tx)

\* SPI_XFER after the busy-wait: the read of RDR, which clears RDRF.
XferFinish(m) == Logged([m EXCEPT !.spi.rdrf = FALSE], "RDR", 0, m.spi.rdr)

\* The loop body without the negate of TOGGLE framing.
PostWord_nonegate(m, c) == m

\* The loop body after SPI_XFER (the store into rxbuffer is in StoreRx).
PostWord(m, c) ==
    IF ~Automatic(m, c.spi) /\ Dev(m, c.spi).cs_mode = "TOGGLE"
    THEN spi_cs_negate(m, c.spi)
    ELSE m

\* The end of the function without the negate of a terminated transfer.
PostLoop_nonegate(m, c) == m

\* After the loop.
PostLoop(m, c) ==
    IF Automatic(m, c.spi)
    THEN IF Wide(m, c.spi) /\ c.terminate THEN spi_cs_negate(m, c.spi) ELSE m
    ELSE IF c.terminate /\ Dev(m, c.spi).cs_mode = "FRAME"
         THEN spi_cs_negate(m, c.spi)
         ELSE m

\* The buffer txdata points into: rxbuffer when txbuffer is null.
Source(mm, c) == IF c.buf = "read" THEN mm.rx ELSE mm.tx

\* The values a byte read past the end of the caller's buffer may have.
Garbage == {0, 255}

\* tx = *txdata : the pointer is never advanced.
TxWords_stuck(mm, c, wide) ==
    LET src == Source(mm, c)
    IN IF ~wide THEN {src[1]}
       ELSE IF 2 <= Len(src) THEN {src[1] + 256 * src[2]}
       ELSE {src[1] + 256 * g : g \in Garbage}

\* tx = *txdata++ : the values the word at byte offset c.i may have.
TxWords(mm, c, wide) ==
    LET src == Source(mm, c)
    IN IF ~wide THEN {src[c.i + 1]}
       ELSE IF c.i + 2 <= Len(src) THEN {src[c.i + 1] + 256 * src[c.i + 2]}
       ELSE {src[c.i + 1] + 256 * g : g \in Garbage}

\* *rxdata = rx : the pointer is never advanced.
StoreRx_first(mm, c, wide, rx) ==
    IF c.buf = "write" THEN mm
    ELSE IF ~wide THEN [mm EXCEPT !.rx[1] = rx % 256]
    ELSE IF 2 <= Len(mm.rx)
         THEN [mm EXCEPT !.rx[1] = rx % 256, !.rx[2] = rx \div 256]
         ELSE [mm EXCEPT !.rx[1] = rx % 256, !.oob = TRUE]

\* The store also overwriting the byte after the word.
StoreRx_ahead(mm, c, wide, rx) ==
    LET n == c.i + (IF wide THEN 3 ELSE 2)
        mm1 == IF c.buf # "write" /\ n <= Len(mm.rx)
               THEN [mm EXCEPT !.rx[n] = rx % 256] ELSE mm
    IN IF c.buf = "write" THEN mm1
       ELSE IF ~wide THEN [mm1 EXCEPT !.rx[c.i + 1] = rx % 256]
       ELSE IF c.i + 2 <= Len(mm1.rx)
            THEN [mm1 EXCEPT !.rx[c.i + 1] = rx % 256, !.rx[c.i + 2] = rx \div 256]
            ELSE [mm1 EXCEPT !.rx[c.i + 1] = rx % 256, !.oob = TRUE]

\* *rxdata++ = rx
StoreRx(mm, c, wide, rx) ==
    IF c.buf = "write" THEN mm
    ELSE IF ~wide THEN [mm EXCEPT !.rx[c.i + 1] = rx % 256]
    ELSE IF c.i + 2 <= Len(mm.rx)
         THEN [mm EXCEPT !.rx[c.i + 1] = rx % 256, !.rx[c.i + 2] = rx \div 256]
         ELSE [mm EXCEPT !.rx[c.i + 1] = rx % 256, !.oob = TRUE]

\* The chip select register the controller uses: the lowest zero bit of PCS.
HwChannel(pcs) ==
    IF pcs % 2 = 0 THEN 0
    ELSE IF (pcs \div 2) % 2 = 0 THEN 1
    ELSE IF (pcs \div 4) % 2 = 0 THEN 2
    ELSE 3

\* Bits per word the controller shifts.
HwBits(spi) == spi.csr[HwChannel(spi.mr.pcs)].bits + 8

\* The word the controller receives for the word in TDR.
Received(spi, wiring) ==
    IF wiring = "loopback" THEN spi.tdr % Pow2(HwBits(spi))
    ELSE Pow2(HwBits(spi)) - 1

(* ------------------------------------------------------------------ *)
(* Initial state and the calls                                         *)
(* ------------------------------------------------------------------ *)

Wirings == {"loopback", "high"}

\* The state after the C start-up code has zeroed the driver's static data and
\* before any call; the controller and the pins are in their reset state.
StartWired(budget, first, wiring) ==
    /\ spi_devices_num = 0
    /\ spi_devices = << >>
    /\ spi_config_last = NULL
    /\ spi_devices_enabled = {}
    /\ SPI = [mr |-> MrZero, csr |-> [c \in 0..(SPI_CHANNELS_NUM - 1) |-> CsrZero],
              spien |-> FALSE, rdrf |-> FALSE, rdr |-> 0, tdr |-> 0]
    /\ PMC = FALSE
    /\ PIO = [cs |-> [p \in Pins |-> PIO_INPUT], bus |-> PIO_INPUT]
    /\ call = first
    /\ mem = NoMem
    /\ log = << >>
    /\ miso = wiring
    /\ setters_left = budget
    /\ chain = NULL

\* MISO wired to MOSI.
StartWith(budget, first) == StartWired(budget, first, "loopback")

Start(budget) == StartWith(budget, IdleCall)

Init == Start(0)

InitCfg == Start(MaxSetterCalls)

InitCs == Start(MaxCsModeCalls)

Idle == call.pc = "idle"

Handles == 1..spi_devices_num

\* The record of a call as it starts: last0, active0 and enabled0 keep the
\* values spi_config_last, spi->cs_active and spi_devices_enabled had when the
\* call was made.
Enter(op, spi) ==
    [IdleCall EXCEPT !.op = op, !.spi = spi, !.last0 = spi_config_last,
                     !.active0 = (spi # NULL /\ spi_devices[spi].cs_active),
                     !.enabled0 = spi_devices_enabled]

\* A call that runs to its return without waiting for the hardware.
ReturnsOf(m, op, spi, ret, arg) ==
    /\ Commit(m)
    /\ call' = [Enter(op, spi) EXCEPT !.pc = "done", !.ret = ret, !.arg = arg]
    /\ UNCHANGED << mem, miso, chain >>

Returns(m, op, spi, ret) == ReturnsOf(m, op, spi, ret, NULL)

\* spi_init with the capacity test letting one device too many in.
SpiInit_offbyone(cfg) ==
    /\ Idle
    /\ IF spi_devices_num > SPI_DEVICES_NUM
       THEN ReturnsOf(M, "spi_init", NULL, NULL, cfg)
       ELSE ReturnsOf(InitDevice(M, cfg), "spi_init", NULL, spi_devices_num + 1, cfg)
    /\ UNCHANGED setters_left

SpiInit(cfg) ==
    /\ Idle
    /\ IF spi_devices_num >= SPI_DEVICES_NUM
       THEN ReturnsOf(M, "spi_init", NULL, NULL, cfg)
       ELSE ReturnsOf(InitDevice(M, cfg), "spi_init", NULL, spi_devices_num + 1, cfg)
    /\ UNCHANGED setters_left

Setter(m, op, spi) ==
    /\ Returns(m, op, spi, 0)
    /\ setters_left' = setters_left - 1

SetterReady == Idle /\ setters_left > 0

\* A setter whose argument is recorded in the call.
SetterOf(m, op, spi, arg) ==
    /\ ReturnsOf(m, op, spi, 0, arg)
    /\ setters_left' = setters_left - 1

SpiClockDivisorSet(spi, clock_divisor) ==
    /\ SetterReady
    /\ SetterOf(spi_clock_divisor_set(M, spi, clock_divisor), "spi_clock_divisor_set",
                spi, clock_divisor)

SpiClockSpeedSet(spi, clock_speed) ==
    /\ SetterReady
    /\ SetterOf(spi_clock_speed_set(M, spi, clock_speed), "spi_clock_speed_set",
                spi, clock_speed)

SpiCsNegateDelaySet(spi, delay) ==
    /\ SetterReady
    /\ Setter(spi_cs_negate_delay_set(M, spi, delay), "spi_cs_negate_delay_set", spi)

SpiCsAssertDelaySet(spi, delay) ==
    /\ SetterReady
    /\ Setter(spi_cs_assert_delay_set(M, spi, delay), "spi_cs_assert_delay_set", spi)

SpiBitsSet(spi, bits) ==
    /\ SetterReady
    /\ Setter(spi_bits_set(M, spi, bits), "spi_bits_set", spi)

SpiModeSet(spi, mode) ==
    /\ SetterReady
    /\ Setter(spi_mode_set(M, spi, mode), "spi_mode_set", spi)

SpiCsModeSet(spi, mode) ==
    /\ SetterReady
    /\ Setter(spi_cs_mode_set(M, spi, mode), "spi_cs_mode_set", spi)

SpiWakeup(spi) ==
    /\ Idle
    /\ Returns(spi_wakeup(M, spi), "spi_wakeup", spi, 0)
    /\ UNCHANGED setters_left

SpiShutdown(spi) ==
    /\ Idle
    /\ Returns(spi_shutdown(M, spi), "spi_shutdown", spi, 0)
    /\ UNCHANGED setters_left

SpiConfig(spi) ==
    /\ Idle
    /\ Returns(spi_config(M, spi), "spi_config", spi, 0)
    /\ UNCHANGED setters_left

BufModes == {"both", "write", "read"}

\* spi_transfer with the test of the length made after spi_config and the
\* first assert.
SpiTransfer_latecheck(spi, len, terminate, buf) ==
    /\ Idle
    /\ Commit(TransferEnter(M, spi))
    /\ call' = [Enter("spi_transfer", spi) EXCEPT
                    !.pc = IF len = 0 THEN "done" ELSE "loop",
                    !.len = len, !.terminate = terminate, !.buf = buf]
    /\ mem' = CallerMem(len, buf)
    /\ UNCHANGED << miso, setters_left, chain >>

\* spi_transfer up to the head of the word loop (or to return 0).
SpiTransfer(spi, len, terminate, buf) ==
    /\ Idle
    /\ IF len = 0
       THEN /\ Commit(M)
            /\ call' = [Enter("spi_transfer", spi) EXCEPT !.pc = "done",
                            !.terminate = terminate, !.buf = buf]
       ELSE /\ Commit(TransferEnter(M, spi))
            /\ call' = [Enter("spi_transfer", spi) EXCEPT !.pc = "loop",
                            !.len = len, !.terminate = terminate, !.buf = buf]
    /\ mem' = CallerMem(len, buf)
    /\ UNCHANGED << miso, setters_left, chain >>

\* spi_xferc up to the busy-wait of SPI_XFER.
SpiXferc(spi, ch) ==
    /\ Idle
    /\ Commit(XferStart(spi_cs_assert(spi_config(M, spi), spi), ch))
    /\ call' = [Enter("spi_xferc", spi) EXCEPT !.pc = "wait"]
    /\ UNCHANGED << mem, miso, setters_left, chain >>

\* One pass of the loop of spi_transfer_8 / spi_transfer_16 up to the busy-wait.
XferWrite ==
    /\ call.pc = "loop"
    /\ \E tx \in TxWords(mem, call, Wide(M, call.spi)) :
           Commit(XferStart(PreWord(M, call), tx))
    /\ call' = [call EXCEPT !.pc = "wait"]
    /\ mem' = [mem EXCEPT !.oob = @ \/ (Wide(M, call.spi)
                                          /\ call.i + 2 > Len(Source(mem, call)))]
    /\ UNCHANGED << miso, setters_left, chain >>

\* The controller, enabled and clocked, has shifted the word out and in: RDRF
\* is set.
HwComplete ==
    /\ call.pc = "wait"
    /\ SPI.spien /\ PMC
    /\ ~SPI.rdrf
    /\ SPI' = [SPI EXCEPT !.rdrf = TRUE, !.rdr = Received(SPI, miso)]
    /\ UNCHANGED << spi_devices_num, spi_devices, spi_config_last,
                    spi_devices_enabled, PMC, PIO, call, mem, log, miso,
                    setters_left, chain >>

\* The busy-wait giving up: RDR is read whether or not RDRF is set.
XferRead_timeout ==
    /\ call.pc = "wait"
    /\ LET m1 == XferFinish(M)
           rx == SPI.rdr
       IN IF call.op = "spi_xferc"
          THEN /\ Commit(spi_cs_negate(m1, call.spi))
               /\ call' = [call EXCEPT !.pc = "done", !.ret = rx % 256]
               /\ mem' = mem
          ELSE LET m2 == PostWord(m1, call)
                   c2 == [call EXCEPT !.i = @ + Stride(M, call.spi)]
               IN /\ mem' = StoreRx(mem, call, Wide(M, call.spi), rx)
                  /\ IF c2.i < c2.len
                     THEN /\ Commit(m2)
                          /\ call' = [c2 EXCEPT !.pc = "loop"]
                     ELSE /\ Commit(PostLoop(m2, c2))
                          /\ call' = [c2 EXCEPT !.pc = "done", !.ret = c2.i]
    /\ UNCHANGED << miso, setters_left, chain >>

\* while (!SPI_READY_P (pSPI)) continue; then the rest of the pass, and of the
\* function when this was the last pass.
XferRead ==
    /\ call.pc = "wait"
    /\ SPI.rdrf
    /\ LET m1 == XferFinish(M)
           rx == SPI.rdr
       IN IF call.op = "spi_xferc"
          THEN /\ Commit(spi_cs_negate(m1, call.spi))
               /\ call' = [call EXCEPT !.pc = "done", !.ret = rx % 256]
               /\ mem' = mem
          ELSE LET m2 == PostWord(m1, call)
                   c2 == [call EXCEPT !.i = @ + Stride(M, call.spi)]
               IN /\ mem' = StoreRx(mem, call, Wide(M, call.spi), rx)
                  /\ IF c2.i < c2.len
                     THEN /\ Commit(m2)
                          /\ call' = [c2 EXCEPT !.pc = "loop"]
                     ELSE /\ Commit(PostLoop(m2, c2))
                          /\ call' = [c2 EXCEPT !.pc = "done", !.ret = c2.i]
    /\ UNCHANGED << miso, setters_left, chain >>

\* The call c, returning, leaves a chained transfer open: an unterminated
\* transfer in FRAME framing on a bit-banged chip select, which either began
\* with the chip select released or continued the chain of the call before.
Chains(c) ==
    /\ c.op = "spi_transfer"
    /\ c.len > 0
    /\ ~c.terminate
    /\ ~Automatic(M, c.spi)
    /\ spi_devices[c.spi].cs_mode = "FRAME"
    /\ (chain = c.spi \/ ~c.active0)

\* SPI_READY_P of the target build: SPI_SR & AT91C_SPI_RDRF
SPI_READY_P(m) == IF m.spi.rdrf THEN 1 ELSE 0

SpiReadReadyP(spi) ==
    /\ Idle
    /\ Returns(M, "spi_read_ready_p", spi, SPI_READY_P(M))
    /\ UNCHANGED setters_left

SpiWriteReadyP(spi) ==
    /\ Idle
    /\ Returns(M, "spi_write_ready_p", spi, SPI_READY_P(M))
    /\ UNCHANGED setters_left

\* A whole transfer of one word on device spi, the controller completing the
\* word: spi_transfer from its entry to its return.
OneWord(m, spi, terminate, wiring) ==
    LET c0 == [IdleCall EXCEPT !.op = "spi_transfer", !.spi = spi, !.terminate = terminate,
                               !.len = Stride(m, spi), !.buf = "write"]
        m1 == TransferEnter(m, spi)
        tx == CHOOSE w \in TxWords(CallerMem(c0.len, "write"), c0, Wide(m1, spi)) : TRUE
        m2 == XferStart(PreWord(m1, c0), tx)
        m3 == [m2 EXCEPT !.spi.rdrf = TRUE, !.spi.rdr = Received(m2.spi, wiring)]
        m4 == PostWord(XferFinish(m3), c0)
    IN PostLoop(m4, [c0 EXCEPT !.i = c0.len])

\* An interrupt between two words of a transfer in progress: its handler makes
\* a transfer of one word on another device and returns. Nothing in the driver
\* keeps it out. irq records the device, once per call.
Interrupt(spi, terminate) ==
    /\ call.op = "spi_transfer"
    /\ call.pc = "loop"
    /\ call.i > 0
    /\ call.irq = NULL
    /\ spi # call.spi
    /\ SPI.spien /\ PMC
    /\ Commit(OneWord(M, spi, terminate, miso))
    /\ call' = [call EXCEPT !.irq = spi]
    /\ UNCHANGED << mem, miso, setters_left, chain >>

\* The call returns to its caller.
Return ==
    /\ call.pc = "done"
    /\ call' = IdleCall
    /\ mem' = NoMem
    /\ log' = << >>
    /\ chain' = IF Chains(call) THEN call.spi ELSE NULL
    /\ UNCHANGED << spi_devices_num, spi_devices, spi_config_last,
                    spi_devices_enabled, SPI, PMC, PIO, miso, setters_left >>

DivisorInputs == {0}

SpeedInputs == {1000000}

DelayInputs == {33}

BitsInputs == {8, 16}

ModeInputs == {2}

XfercInputs == {85}

\* The calls every run makes: creation, the sync, transfers.
Transfers ==
    \/ \E cfg \in Cfgs : SpiInit(cfg)
    \/ \E spi \in Handles : SpiConfig(spi)
    \/ \E spi \in Handles, len \in 0..MaxLen, t \in BOOLEAN :
           SpiTransfer(spi, len, t, "both")
    \/ \E spi \in Handles, ch \in XfercInputs : SpiXferc(spi, ch)
    \/ XferWrite
    \/ HwComplete
    \/ XferRead
    \/ Return

\* Creation, transfers and the power lifecycle.
Next ==
    \/ Transfers
    \/ \E spi \in Handles : SpiWakeup(spi)
    \/ \E spi \in Handles : SpiShutdown(spi)

Spec == Init /\ [][Next]_vars

\* Creation, transfers and the setters.
NextCfg ==
    \/ Transfers
    \/ \E spi \in Handles, v \in DivisorInputs : SpiClockDivisorSet(spi, v)
    \/ \E spi \in Handles, v \in SpeedInputs : SpiClockSpeedSet(spi, v)
    \/ \E spi \in Handles, v \in DelayInputs : SpiCsNegateDelaySet(spi, v)
    \/ \E spi \in Handles, v \in DelayInputs : SpiCsAssertDelaySet(spi, v)
    \/ \E spi \in Handles, v \in BitsInputs : SpiBitsSet(spi, v)
    \/ \E spi \in Handles, v \in ModeInputs : SpiModeSet(spi, v)
    \/ \E spi \in Handles, v \in CsModes : SpiCsModeSet(spi, v)

SpecCfg == InitCfg /\ [][NextCfg]_vars

\* Creation, transfers and changes of the framing mode.
NextCs ==
    \/ Transfers
    \/ \E spi \in Handles, v \in CsModes : SpiCsModeSet(spi, v)

SpecCs == InitCs /\ [][NextCs]_vars

\* Every call, with the setters.
NextAll == Next \/ NextCfg

SpecAll == InitCs /\ [][NextAll]_vars

\* The bus wired either way; creation and transfers with both buffers, with
\* txbuffer null and with rxbuffer null.
InitData == \E w \in Wirings : StartWired(0, IdleCall, w)

NextData ==
    \/ \E cfg \in Cfgs : SpiInit(cfg)
    \/ \E spi \in Handles, len \in 0..MaxLen, t \in BOOLEAN, buf \in BufModes :
           SpiTransfer(spi, len, t, buf)
    \/ XferWrite
    \/ HwComplete
    \/ XferRead
    \/ Return

SpecData == InitData /\ [][NextData]_vars

\* Creation and transfers, with interrupts that make transfers of their own.
NextIrq ==
    \/ \E cfg \in Cfgs : SpiInit(cfg)
    \/ \E spi \in Handles, len \in 0..MaxLen, t \in BOOLEAN :
           SpiTransfer(spi, len, t, "both")
    \/ \E spi \in Handles, t \in BOOLEAN : Interrupt(spi, t)
    \/ XferWrite
    \/ HwComplete
    \/ XferRead
    \/ Return

SpecIrq == Init /\ [][NextIrq]_vars

\* Creation, transfers, single words and the two ready predicates.
NextPoll ==
    \/ \E cfg \in Cfgs : SpiInit(cfg)
    \/ \E spi \in Handles, len \in 0..MaxLen, t \in BOOLEAN :
           SpiTransfer(spi, len, t, "both")
    \/ \E spi \in Handles, ch \in XfercInputs : SpiXferc(spi, ch)
    \/ \E spi \in Handles : SpiReadReadyP(spi)
    \/ \E spi \in Handles : SpiWriteReadyP(spi)
    \/ XferWrite
    \/ HwComplete
    \/ XferRead
    \/ Return

SpecPoll == Init /\ [][NextPoll]_vars

\* The driver and the hardware before any call.
StartMachine ==
    [ num |-> 0, devs |-> << >>, last |-> NULL, enabled |-> {},
      spi |-> [mr |-> MrZero, csr |-> [c \in 0..(SPI_CHANNELS_NUM - 1) |-> CsrZero],
               spien |-> FALSE, rdrf |-> FALSE, rdr |-> 0, tdr |-> 0],
      pmc |-> FALSE, pio |-> [cs |-> [p \in Pins |-> PIO_INPUT], bus |-> PIO_INPUT],
      log |-> << >> ]

\* Two devices created, the first given a framing mode, both shut down: the
\* hardware is powered down and every later spi_wakeup is a re-wakeup.
Asleep(c1, c2, mode) ==
    LET m1 == InitDevice(StartMachine, c1)
        m2 == InitDevice(m1, c2)
        m3 == spi_cs_mode_set(m2, 1, mode)
        m4 == spi_shutdown(m3, 1)
    IN spi_shutdown(m4, 2)

InitWake ==
    \E c1 \in Cfgs : \E c2 \in Cfgs \ {c1}, mode \in CsModes :
        LET m == Asleep(c1, c2, mode)
        IN /\ spi_devices_num = m.num
           /\ spi_devices = m.devs
           /\ spi_config_last = m.last
           /\ spi_devices_enabled = m.enabled
           /\ SPI = m.spi
           /\ PMC = m.pmc
           /\ PIO = m.pio
           /\ call = IdleCall
           /\ mem = NoMem
           /\ log = << >>
           /\ miso = "loopback"
           /\ setters_left = 0
           /\ chain = NULL

\* The power lifecycle and the transfers of devices that already exist: no
\* creation and no setter.
NextWake ==
    \/ \E spi \in Handles : SpiWakeup(spi)
    \/ \E spi \in Handles : SpiShutdown(spi)
    \/ \E spi \in Handles : SpiConfig(spi)
    \/ \E spi \in Handles, len \in 0..MaxLen, t \in BOOLEAN :
           SpiTransfer(spi, len, t, "both")
    \/ \E spi \in Handles, ch \in XfercInputs : SpiXferc(spi, ch)
    \/ XferWrite
    \/ HwComplete
    \/ XferRead
    \/ Return

SpecWake == InitWake /\ [][NextWake]_vars

\* The arguments the resolver is applied to: every channel, and on two ports
\* every bit the table names and one it does not.
ResolveChannels == 0..(SPI_CHANNELS_NUM - 1)

ResolvePins ==
    {PIO_DEFINE(port, portbit) :
        port \in {PORT_A, PORT_B}, portbit \in {3, 5, 9, 10, 11, 20, 22, 30, 31}}

InitResolve ==
    \E channel \in ResolveChannels, cs \in ResolvePins :
        StartWith(0, [IdleCall EXCEPT !.pc = "resolve",
                                      !.op = "spi_channel_cs_config_get",
                                      !.arg = [channel |-> channel, cs |-> cs]])

\* spi_channel_cs_config_get applied to the arguments.
Resolve ==
    /\ call.pc = "resolve"
    /\ call' = [call EXCEPT !.pc = "resolved",
                    !.ret = spi_channel_cs_config_get(call.arg.channel, call.arg.cs)]
    /\ UNCHANGED << spi_devices_num, spi_devices, spi_config_last,
                    spi_devices_enabled, SPI, PMC, PIO, mem, log, miso,
                    setters_left, chain >>

NextResolve == Resolve

SpecResolve == InitResolve /\ [][NextResolve]_vars

\* Creation, the power lifecycle, single words and transfers that all end
\* with terminate set: no call leaves a transaction open.
NextTerm ==
    \/ \E cfg \in Cfgs : SpiInit(cfg)
    \/ \E spi \in Handles : SpiWakeup(spi)
    \/ \E spi \in Handles : SpiShutdown(spi)
    \/ \E spi \in Handles, len \in 0..MaxLen : SpiTransfer(spi, len, TRUE, "both")
    \/ \E spi \in Handles, ch \in XfercInputs : SpiXferc(spi, ch)
    \/ XferWrite
    \/ HwComplete
    \/ XferRead
    \/ Return

SpecTerm == Init /\ [][NextTerm]_vars

\* Divisors asked for, zero among them.
WideDivisors == {0, 1, 255, 65535}

\* Speeds asked for, in Hz, as uint32_t: low ones, F_CPU, above F_CPU, 2^31 - 1,
\* 2^31, 2^32 - F_CPU - 1, 2^32 - F_CPU, 2^32 - F_CPU + 1 (the first for which
\* F_CPU + speed - 1 wraps) and 2^32 - 1.
WideSpeeds ==
    {1, 733, 1000000, F_CPU, 2 * F_CPU, 2147483647, -2147483647 - 1,
     -F_CPU - 1, -F_CPU, -F_CPU + 1, -1}

\* Creation and the two setters of the clock divisor.
NextDiv ==
    \/ \E cfg \in Cfgs : SpiInit(cfg)
    \/ \E spi \in Handles, v \in WideDivisors : SpiClockDivisorSet(spi, v)
    \/ \E spi \in Handles, v \in WideSpeeds : SpiClockSpeedSet(spi, v)
    \/ Return

SpecDiv == InitCs /\ [][NextDiv]_vars

\* spi_channel_select on its own: one device created, its registers synced or
\* not yet, and every channel id as the argument.
InitSelect ==
    \E cfg \in Cfgs, synced \in BOOLEAN, channel \in 0..MaxChannel :
        LET m0 == InitDevice(StartMachine, cfg)
            m == IF synced THEN spi_config(m0, 1) ELSE m0
        IN /\ spi_devices_num = m.num
           /\ spi_devices = m.devs
           /\ spi_config_last = m.last
           /\ spi_devices_enabled = m.enabled
           /\ SPI = m.spi
           /\ PMC = m.pmc
           /\ PIO = m.pio
           /\ call = [IdleCall EXCEPT !.pc = "select", !.op = "spi_channel_select",
                                      !.arg = [channel |-> channel]]
           /\ mem = NoMem
           /\ log = << >>
           /\ miso = "loopback"
           /\ setters_left = 0
           /\ chain = NULL

\* spi_channel_select applied to the argument.
Select ==
    /\ call.pc = "select"
    /\ Commit(spi_channel_select(M, call.arg.channel))
    /\ call' = [call EXCEPT !.pc = "selected"]
    /\ UNCHANGED << mem, miso, setters_left, chain >>

NextSelect == Select

SpecSelect == InitSelect /\ [][NextSelect]_vars

\* Four of the powered-down states: a device of channel 0 in FRAME framing and
\* a device of channel 1.
InitLive ==
    /\ InitWake
    /\ spi_devices[1].channel = 0
    /\ spi_devices[1].cs_mode = "FRAME"
    /\ spi_devices[2].channel = 1

\* The calls of NextWake with the processor running the call in progress and
\* the controller, while enabled and clocked, completing the word it was given.
SpecLive ==
    /\ InitLive
    /\ [][NextWake]_vars
    /\ WF_vars(XferWrite)
    /\ WF_vars(HwComplete)
    /\ WF_vars(XferRead)

(* ------------------------------------------------------------------ *)
(* Properties                                                          *)
(* ------------------------------------------------------------------ *)

\* The device of the call in progress.
Cur == spi_devices[call.spi]

\* The channel registers hold the settings of device d, as spi_config
\* projects them.
RegistersMatch(d) ==
    LET csr == SPI.csr[ChanIdx(d.channel)]
    IN /\ SPI.mr.ps = 0
       /\ SPI.mr.pcs = SPI_CHANNEL_MASK(d.channel)
       /\ csr.csaat = (IF d.cs_mode = "FRAME" THEN 1 ELSE 0)
       /\ csr.cpol = ModeCpol(d.mode)
       /\ csr.ncpha = ModeNcpha(d.mode)
       /\ csr.bits = (d.bits - 8) % 16
       /\ csr.scbr = d.clock_divisor % 256
       /\ csr.dlybs = d.cs_assert_delay % 256
       /\ csr.dlybct = ((d.cs_negate_delay + 31) \div 32) % 256

\* The writes of a full sync of device d, in the order of spi_config.
SyncWrites(d) ==
    LET ch == ChanIdx(d.channel)
    IN << << "MR.PS", 0, 0 >>,
          << "MR.PCS", 0, SPI_CHANNEL_MASK(d.channel) >>,
          << "CSR.CSAAT", ch, IF d.cs_mode = "FRAME" THEN 1 ELSE 0 >>,
          << "CSR.MODE", ch, d.mode >>,
          << "CSR.BITS", ch, (d.bits - 8) % 16 >>,
          << "CSR.SCBR", ch, d.clock_divisor % 256 >>,
          << "CSR.DLYBS", ch, d.cs_assert_delay % 256 >>,
          << "CSR.DLYBCT", ch, ((d.cs_negate_delay + 31) \div 32) % 256 >> >>

\* The log starts with a full sync of device d.
StartsWithSync(l, d) ==
    /\ Len(l) >= Len(SyncWrites(d))
    /\ \A k \in 1..Len(SyncWrites(d)) :
           << l[k].reg, l[k].idx, l[k].val >> = SyncWrites(d)[k]

\* The registers of the controller the driver writes.
IsRegister(e) ==
    e.reg \in {"MR", "MR.PS", "MR.PCS", "CSR", "CSR.CSAAT", "CSR.MODE", "CSR.BITS",
               "CSR.SCBR", "CSR.DLYBS", "CSR.DLYBCT", "CR.SWRST", "CR.SPIEN",
               "CR.SPIDIS", "CR.LASTXFER", "TDR"}

Filter(l, keep(_)) == SelectSeq(l, keep)

IsPrefix(a, b) == Len(a) <= Len(b) /\ a = SubSeq(b, 1, Len(a))

\* A word is being clocked: TDR is written and the call polls RDRF.
Clocking == call.pc = "wait"

Transferring == call.op = "spi_transfer" /\ call.pc \in {"loop", "wait", "done"} /\ call.len > 0

\* Number of passes of the word loop of a transfer of len bytes.
Words(len, wide) == IF wide THEN (len + 1) \div 2 ELSE len

(* C1: whenever the config cache names a device, the registers of that     *)
(* device's channel hold the device's stored settings.                     *)
C1_CacheMatchesRegisters ==
    spi_config_last # NULL => RegistersMatch(spi_devices[spi_config_last])

(* C2: whenever a word is being clocked by transfer or by spi_xferc, the   *)
(* config cache names the calling device.                                  *)
C2_SyncBeforeWord ==
    (call.pc \in {"loop", "wait"}) => spi_config_last = call.spi

C2_Witness ==
    /\ Clocking
    /\ call.op = "spi_xferc"
    /\ call.last0 # call.spi
    /\ spi_config_last = call.spi

(* C3: a sync of d leaves the cache naming d, and a sync of d made while   *)
(* the cache already names d writes nothing.                               *)
C3_CacheShortCircuit ==
    (call.op = "spi_config" /\ call.pc = "done") =>
        /\ spi_config_last = call.spi
        /\ (call.last0 = call.spi => log = << >>)

C3_Witness ==
    /\ call.op = "spi_config"
    /\ call.pc = "done"
    /\ call.last0 = call.spi
    /\ log = << >>

(* C4: a transfer on a device made while the cache names another device of *)
(* the same channel starts with the full sync of the calling device.       *)
C4_SwitchResyncs ==
    (/\ Transferring
     /\ call.last0 \notin {NULL, call.spi}
     /\ ChanIdx(spi_devices[call.last0].channel) = ChanIdx(Cur.channel))
        => StartsWithSync(log, Cur)

\* Two devices with the same settings on one channel, the second transferring
\* after the first was synced.
C4_Witness ==
    /\ Transferring
    /\ call.last0 \notin {NULL, call.spi}
    /\ spi_devices[call.last0] = Cur
    /\ StartsWithSync(log, Cur)
    /\ call.pc = "done"

Setters ==
    {"spi_clock_divisor_set", "spi_clock_speed_set", "spi_cs_negate_delay_set",
     "spi_cs_assert_delay_set", "spi_bits_set", "spi_mode_set", "spi_cs_mode_set"}

(* C5: a setter on d leaves the cache not naming d, and a call that syncs  *)
(* d while the cache does not name d writes d's settings, so that its      *)
(* first word is clocked with them in the channel registers.               *)
C5_SetterForcesResync ==
    /\ (call.op \in Setters /\ call.pc = "done") => spi_config_last # call.spi
    /\ (/\ call.op \in {"spi_transfer", "spi_xferc"}
        /\ Clocking
        /\ call.i = 0
        /\ call.last0 # call.spi)
           => (StartsWithSync(log, Cur) /\ RegistersMatch(Cur))

\* A setter was called on the cached device.
C5_Witness ==
    /\ call.op \in Setters
    /\ call.pc = "done"
    /\ call.last0 = call.spi
    /\ spi_config_last = NULL

(* C6 as claimed: a transfer of N > 0 bytes returns N.                     *)
C6_ReturnsLength ==
    (Transferring /\ call.pc = "done") => call.ret = call.len

(* C6: a transfer of N > 0 bytes returns N, when N is even or the word     *)
(* width is at most 8 bits.                                                *)
C6_ReturnsLengthEven ==
    (/\ Transferring
     /\ call.pc = "done"
     /\ (Wide(M, call.spi) => call.len % 2 = 0))
        => call.ret = call.len

C6_Witness ==
    /\ Transferring
    /\ call.pc = "done"
    /\ Wide(M, call.spi)
    /\ call.len = 2
    /\ call.ret = 2

IsData(e) == e.reg \in {"TDR", "RDR"}

\* The buffer txdata points into, as the caller filled it.
Given == Source(CallerMem(call.len, call.buf), call)

\* w is the word of the caller's buffer at byte offset o (the high byte of
\* a 16 bit word that ends past the buffer is not the caller's).
IsWord(w, o, wide) ==
    IF ~wide THEN w = Given[o + 1]
    ELSE IF o + 2 <= Len(Given) THEN w = Given[o + 1] + 256 * Given[o + 2]
    ELSE w % 256 = Given[o + 1]

(* C7: the writes of TDR and the reads of RDR of a transfer alternate,     *)
(* starting with a write, and the k-th word written is word k of the       *)
(* transmit buffer.                                                        *)
C7_BufferOrder ==
    Transferring =>
        LET data == Filter(log, IsData)
            wide == Wide(M, call.spi)
            stride == Stride(M, call.spi)
        IN /\ \A k \in 1..Len(data) :
                  data[k].reg = (IF k % 2 = 1 THEN "TDR" ELSE "RDR")
           /\ \A k \in 1..Len(data) :
                  k % 2 = 1 => IsWord(data[k].val, stride * (k \div 2), wide)
           /\ (call.pc = "done" => Len(data) = 2 * Words(call.len, wide))

C7_Witness ==
    /\ Transferring
    /\ call.pc = "done"
    /\ call.len = 2
    /\ ~Wide(M, call.spi)
    /\ Len(Filter(log, IsData)) = 4

(* C8: a transfer of length 0 returns 0 at once and changes nothing: no    *)
(* register, no pin, not the cache, no device record.                      *)
C8_ZeroLength ==
    [][(call.pc = "idle" /\ call'.op = "spi_transfer" /\ call'.len = 0) =>
           (/\ call'.pc = "done"
            /\ call'.ret = 0
            /\ log' = << >>
            /\ UNCHANGED << spi_devices_num, spi_devices, spi_config_last,
                            spi_devices_enabled, SPI, PMC, PIO >>)]_vars

\* A transfer of length 0 on a device whose chip select is still asserted
\* and which the cache does not name.
C8_Witness ==
    /\ call.op = "spi_transfer"
    /\ call.pc = "done"
    /\ call.len = 0
    /\ call.ret = 0
    /\ Cur.cs_active
    /\ spi_config_last # call.spi

\* The accesses of a call that concern the chip select of its device: the
\* pin driven low (L) or high (H) or handed to the controller (P), a word
\* written to TDR (T) and the received word read from RDR (R).
KeepCs(e) == (e.reg = "PIO" /\ e.idx = Cur.cs) \/ e.reg \in {"TDR", "RDR"}

Sym(e) ==
    IF e.reg = "TDR" THEN "T"
    ELSE IF e.reg = "RDR" THEN "R"
    ELSE IF e.val = PIO_OUTPUT_LOW THEN "L"
    ELSE IF e.val = PIO_OUTPUT_HIGH THEN "H"
    ELSE "P"

CsTrace ==
    LET f == Filter(log, KeepCs)
    IN [k \in 1..Len(f) |-> Sym(f[k])]

RECURSIVE Repeat(_, _)
Repeat(q, n) == IF n = 0 THEN << >> ELSE q \o Repeat(q, n - 1)

\* The trace is the expected one so far, and all of it once the call is done.
Follows(expected) ==
    /\ IsPrefix(CsTrace, expected)
    /\ (call.pc = "done" => CsTrace = expected)

BitBanged(framing) ==
    /\ Transferring
    /\ ~Automatic(M, call.spi)
    /\ Cur.cs_mode = framing

CallWords == Words(call.len, Wide(M, call.spi))

(* C9 as claimed: a transfer in TOGGLE framing on a bit-banged chip select *)
(* drives the pin low, clocks one word and drives the pin high, once for   *)
(* every word, whatever preceded the transfer.                             *)
C9_TogglePerWord ==
    BitBanged("TOGGLE") => Follows(Repeat(<< "L", "T", "R", "H" >>, CallWords))

(* C9: a transfer in TOGGLE framing on a bit-banged chip select drives the *)
(* pin low, clocks one word and drives the pin high, once for every word,  *)
(* except that the first word has no drive low of its own when the chip    *)
(* select is still asserted from before the call (cs_active set).          *)
C9_TogglePerWordUnlessActive ==
    BitBanged("TOGGLE") =>
        IF call.active0
        THEN Follows(<< "T", "R", "H" >>
                     \o Repeat(<< "L", "T", "R", "H" >>, CallWords - 1))
        ELSE Follows(Repeat(<< "L", "T", "R", "H" >>, CallWords))

C9_Witness ==
    /\ BitBanged("TOGGLE")
    /\ call.pc = "done"
    /\ ~call.terminate
    /\ ~call.active0
    /\ CsTrace = << "L", "T", "R", "H", "L", "T", "R", "H" >>

\* On return the pin is high and the chip select is not active.
Released == PIO.cs[Cur.cs] = PIO_OUTPUT_HIGH /\ ~Cur.cs_active

(* C10 as claimed: a terminated transfer in FRAME framing on a bit-banged  *)
(* chip select drives the pin low once before word 0 and high once after   *)
(* the last word, and returns with the pin high and cs_active false.       *)
C10_FrameOnce ==
    (BitBanged("FRAME") /\ call.terminate) =>
        /\ Follows(<< "L" >> \o Repeat(<< "T", "R" >>, CallWords) \o << "H" >>)
        /\ (call.pc = "done" => Released)

(* C10: a terminated transfer in FRAME framing on a bit-banged chip select *)
(* drives the pin low once before word 0, unless the chip select is still  *)
(* asserted from before the call (cs_active set), and high once after the  *)
(* last word; it returns with the pin high and cs_active false.            *)
C10_FrameOnceUnlessActive ==
    (BitBanged("FRAME") /\ call.terminate) =>
        /\ Follows((IF call.active0 THEN << >> ELSE << "L" >>)
                   \o Repeat(<< "T", "R" >>, CallWords) \o << "H" >>)
        /\ (~call.active0 /\ Clocking => PIO.cs[Cur.cs] = PIO_OUTPUT_LOW)
        /\ (call.pc = "done" => Released)

C10_Witness ==
    /\ BitBanged("FRAME")
    /\ call.terminate
    /\ call.pc = "done"
    /\ ~call.active0
    /\ CsTrace = << "L", "T", "R", "T", "R", "H" >>
    /\ Released

(* C11: an unterminated transfer in FRAME framing on a bit-banged chip     *)
(* select returns with the pin driven low and cs_active true.              *)
C11_FrameStaysAsserted ==
    (BitBanged("FRAME") /\ ~call.terminate /\ call.pc = "done") =>
        (PIO.cs[Cur.cs] = PIO_OUTPUT_LOW /\ Cur.cs_active)


\* The call begins a chain: FRAME framing on a bit-banged chip select that is
\* released when the call is made.
Starting == BitBanged("FRAME") /\ ~call.active0

\* The call continues the chain the call before it left open on its device.
Continuing == BitBanged("FRAME") /\ chain = call.spi

\* The negate that ends a terminated call.
Ending == IF call.terminate THEN << "H" >> ELSE << >>

(* C12: in a run of FRAME transfers on one device of a bit-banged chip     *)
(* select, begun with the chip select released and with no other call in   *)
(* between, the pin is driven low once, before the first word of the first *)
(* call; it is low while every word is clocked and between the calls; no   *)
(* later call of the run drives it low again, and it is driven high only   *)
(* after the last word of the call that has terminate set.                 *)
C12_ChainedFrame ==
    /\ Starting => Follows(<< "L" >> \o Repeat(<< "T", "R" >>, CallWords) \o Ending)
    /\ Continuing => Follows(Repeat(<< "T", "R" >>, CallWords) \o Ending)
    /\ ((Starting \/ Continuing) /\ Clocking) => PIO.cs[Cur.cs] = PIO_OUTPUT_LOW
    /\ (call.pc = "idle" /\ chain # NULL) =>
           /\ PIO.cs[spi_devices[chain].cs] = PIO_OUTPUT_LOW
           /\ spi_devices[chain].cs_active

\* The terminating call of a chain of at least two calls has returned.
C12_Witness ==
    /\ Continuing
    /\ call.terminate
    /\ call.pc = "done"
    /\ CsTrace = << "T", "R", "T", "R", "H" >>
    /\ Released

\* A write of the configuration of the chip-select pin of the calling device.
IsCsWrite(e) == e.reg = "PIO" /\ e.idx = Cur.cs

(* C13: a transfer or spi_xferc on a device whose framing mode is HIGH     *)
(* never writes the configuration of the device's chip-select pin and      *)
(* leaves cs_active as it found it.                                        *)
C13_HighSuppressed ==
    (call.op \in {"spi_transfer", "spi_xferc"} /\ Cur.cs_mode = "HIGH") =>
        /\ Filter(log, IsCsWrite) = << >>
        /\ Cur.cs_active = call.active0

\* The writes that enable and disable the peripheral clock of the controller.
IsBringUp(e) == e.reg = "PMC.PCER"

IsTearDown(e) == e.reg = "PMC.PCDR"

(* C14: a wakeup brings the hardware up, once, exactly when no device was  *)
(* enabled before it, and otherwise touches no hardware; a shutdown tears  *)
(* the hardware down, once, exactly when its device was the only one       *)
(* enabled, and otherwise touches no hardware and leaves it powered.       *)
C14_RefCounted ==
    /\ (call.op = "spi_wakeup" /\ call.pc = "done") =>
           /\ spi_devices_enabled = call.enabled0 \cup {call.spi}
           /\ IF call.enabled0 = {}
              THEN Len(Filter(log, IsBringUp)) = 1 /\ PMC /\ SPI.spien
              ELSE log = << >> /\ PMC /\ SPI.spien
    /\ (call.op = "spi_shutdown" /\ call.pc = "done") =>
           /\ spi_devices_enabled = call.enabled0 \ {call.spi}
           /\ IF call.enabled0 = {call.spi}
              THEN Len(Filter(log, IsTearDown)) = 1 /\ ~PMC /\ ~SPI.spien
              ELSE log = << >> /\ (call.enabled0 # {} => PMC /\ SPI.spien)

\* The second of two devices is shut down after the first: the tear-down.
C14_Witness ==
    /\ call.op = "spi_shutdown"
    /\ call.pc = "done"
    /\ spi_devices_num = 2
    /\ call.enabled0 = {call.spi}
    /\ Len(Filter(log, IsTearDown)) = 1
    /\ ~PMC

\* The call that shut the last enabled device down has run.
LastShutdown ==
    /\ call.op = "spi_shutdown"
    /\ call.pc = "done"
    /\ call.enabled0 = {call.spi}

IsCsLow(e) == e.reg = "PIO" /\ e.val = PIO_OUTPUT_LOW

(* C15 as claimed: when the last enabled device is shut down, the chip     *)
(* select pin of every registered device is driven to its inactive level,  *)
(* high.                                                                   *)
C15_ShutdownDeselects ==
    LastShutdown =>
        \A d \in Handles : PIO.cs[spi_devices[d].cs] = PIO_OUTPUT_HIGH

(* C15: when the last enabled device is shut down, the chip-select pin of  *)
(* every registered device is driven low, one write for each device.       *)
C15_ShutdownDrivesLow ==
    LastShutdown =>
        /\ \A d \in Handles : PIO.cs[spi_devices[d].cs] = PIO_OUTPUT_LOW
        /\ LET lows == Filter(log, IsCsLow)
           IN /\ Len(lows) = spi_devices_num
              /\ \A d \in Handles : lows[d].idx = spi_devices[d].cs

\* Two devices on different pins, the last of them shut down.
C15_Witness ==
    /\ LastShutdown
    /\ spi_devices_num = 2
    /\ spi_devices[1].cs # spi_devices[2].cs
    /\ \A d \in Handles : PIO.cs[spi_devices[d].cs] = PIO_OUTPUT_LOW

(* C16: the peripheral clock is enabled, the controller is enabled and the *)
(* bus pins are routed to the controller when some device is enabled, and  *)
(* none of the three holds when no device is enabled.                      *)
C16_PoweredIffEnabled ==
    IF spi_devices_enabled # {}
    THEN PMC /\ SPI.spien /\ PIO.bus = PIO_PERIPH_A
    ELSE ~PMC /\ ~SPI.spien /\ PIO.bus # PIO_PERIPH_A

\* Powered again by a wakeup after every device had been shut down.
C16_Witness ==
    /\ call.op = "spi_wakeup"
    /\ call.pc = "done"
    /\ call.enabled0 = {}
    /\ spi_devices_enabled = {call.spi}
    /\ PMC /\ SPI.spien /\ PIO.bus = PIO_PERIPH_A

\* The table lists the pin for the channel.
InTable(channel, pin) ==
    \E k \in 1..SPI_CS_NUM : spi_cs[k].channel = channel /\ spi_cs[k].pio = pin

\* An access only the automatic path makes: the pin handed to the controller,
\* or the last transfer flag raised.
IsAutomaticOnly(e) ==
    \/ e.reg = "PIO" /\ e.val \in {PIO_PERIPH_A, PIO_PERIPH_B}
    \/ e.reg = "CR.LASTXFER"

(* C17: a device whose pin the table does not list for its channel has the *)
(* GPIO capability (cs_config is PIO_OUTPUT_HIGH) in every state, and no   *)
(* transfer or spi_xferc on it hands the pin to the controller or raises   *)
(* the last transfer flag.                                                 *)
C17_FallbackIsGpio ==
    /\ \A d \in Handles :
           ~InTable(spi_devices[d].channel, spi_devices[d].cs) =>
               spi_devices[d].cs_config = PIO_OUTPUT_HIGH
    /\ (/\ call.op \in {"spi_transfer", "spi_xferc"}
        /\ ~InTable(Cur.channel, Cur.cs)) =>
           /\ ~Automatic(M, call.spi)
           /\ Filter(log, IsAutomaticOnly) = << >>

\* A terminated transfer on a device of channel 1 whose pin the table lists
\* for channel 2 only.
C17_Witness ==
    /\ Transferring
    /\ call.pc = "done"
    /\ call.terminate
    /\ Cur.channel = 1
    /\ InTable(2, Cur.cs)
    /\ ~InTable(1, Cur.cs)
    /\ CsTrace = << "L", "T", "R", "H" >>

\* The entries of the table whose channel, port and bit equal the arguments.
Matches(channel, pin) ==
    {k \in 1..SPI_CS_NUM :
        /\ spi_cs[k].channel = channel
        /\ spi_cs[k].pio \div 32 = pin \div 32
        /\ spi_cs[k].pio % 32 = pin % 32}

(* C18: the resolver answers the peripheral selector of a table entry      *)
(* whose channel, port and bit all equal the arguments when there is such  *)
(* an entry, and PIO_OUTPUT_HIGH (GPIO) when there is none.                *)
C18_Resolve ==
    call.pc = "resolved" =>
        LET hits == Matches(call.arg.channel, call.arg.cs)
        IN IF hits = {}
           THEN call.ret = PIO_OUTPUT_HIGH
           ELSE \E k \in hits :
                    call.ret = (IF spi_cs[k].periph = PERIPH_A THEN PIO_PERIPH_A
                                ELSE PIO_PERIPH_B)

\* A pin the table lists for channel 2, asked about for channel 1.
C18_Witness ==
    /\ call.pc = "resolved"
    /\ call.arg = [channel |-> 1, cs |-> PA10]
    /\ Matches(2, PA10) # {}
    /\ call.ret = PIO_OUTPUT_HIGH

(* C19: spi_init returns the null handle exactly when the pool already     *)
(* holds SPI_DEVICES_NUM devices, and then changes nothing; otherwise it   *)
(* returns a handle that is not null and differs from every handle         *)
(* returned before, and the devices created before keep their place; the   *)
(* number of devices never goes down.                                      *)
C19_PoolExhaustion ==
    [][/\ spi_devices_num' >= spi_devices_num
       /\ (call.pc = "idle" /\ call'.op = "spi_init") =>
              IF spi_devices_num >= SPI_DEVICES_NUM
              THEN /\ call'.ret = NULL
                   /\ log' = << >>
                   /\ UNCHANGED << spi_devices_num, spi_devices, spi_config_last,
                                   spi_devices_enabled, SPI, PMC, PIO >>
              ELSE /\ call'.ret # NULL
                   /\ call'.ret \notin Handles
                   /\ spi_devices_num' = spi_devices_num + 1
                   /\ Handles' = Handles \cup {call'.ret}
                   /\ Len(spi_devices') = spi_devices_num'
                   /\ \A d \in Handles :
                          /\ spi_devices'[d].channel = spi_devices[d].channel
                          /\ spi_devices'[d].cs = spi_devices[d].cs]_vars

\* A creation refused by a full pool.
C19_Witness ==
    /\ call.op = "spi_init"
    /\ call.pc = "done"
    /\ call.ret = NULL
    /\ spi_devices_num = SPI_DEVICES_NUM
    /\ log = << >>

(* C20: for every device with a bit-banged chip select, cs_active is true  *)
(* exactly when the pin is driven low.                                     *)
C20_CsActiveIsPinState ==
    \A d \in Handles :
        spi_devices[d].cs_config = PIO_OUTPUT_HIGH =>
            (spi_devices[d].cs_active <=> PIO.cs[spi_devices[d].cs] = PIO_OUTPUT_LOW)

\* The configured parameters of a device.
Params(d) ==
    [channel |-> d.channel, cs |-> d.cs, cs_config |-> d.cs_config, mode |-> d.mode,
     bits |-> d.bits, clock_divisor |-> d.clock_divisor,
     cs_assert_delay |-> d.cs_assert_delay, cs_negate_delay |-> d.cs_negate_delay,
     cs_mode |-> d.cs_mode]

(* C21: spi_wakeup and spi_shutdown leave the number of devices and the    *)
(* configured parameters of every device as they were.                     *)
C21_LifecycleKeepsParams ==
    [][(call.pc = "idle" /\ call'.op \in {"spi_wakeup", "spi_shutdown"}) =>
           /\ spi_devices_num' = spi_devices_num
           /\ \A d \in Handles :
                  Params(spi_devices'[d]) = Params(spi_devices[d])]_vars

\* A device with a divisor of its own woken again after the tear-down.
C21_Witness ==
    /\ call.op = "spi_wakeup"
    /\ call.pc = "done"
    /\ call.enabled0 = {}
    /\ Cur.cs_mode = "FRAME"
    /\ Cur.clock_divisor = 3
    /\ Cur.bits = 16

(* C22: once the hardware has been powered down and brought up again, a    *)
(* word is clocked only with the registers holding the settings of the     *)
(* device of the call, whatever calls were made in between. Under SpecWake *)
(* every bring-up is one that follows a power-down.                        *)
C22_ResyncAfterWakeup ==
    (call.op \in {"spi_transfer", "spi_xferc"} /\ Clocking /\ PMC /\ SPI.spien) =>
        RegistersMatch(Cur)

(* C23: while a word of a terminated 8 bit transfer on an automatic chip   *)
(* select is being clocked, the pin is still under the control of the      *)
(* controller, and for the last word the channel has been switched to      *)
(* TOGGLE framing: CSAAT is clear.                                         *)
C23_LastWordReleasesByHardware ==
    ( /\ Transferring
      /\ Clocking
      /\ Automatic(M, call.spi)
      /\ ~Wide(M, call.spi)
      /\ call.terminate
      /\ Cur.cs_mode # "HIGH" ) =>
        /\ PIO.cs[Cur.cs] = Cur.cs_config
        /\ call.i >= call.len - 1 => SPI.csr[ChanIdx(Cur.channel)].csaat = 0

IsLastXfer(e) == e.reg = "CR.LASTXFER"

IsTdr(e) == e.reg = "TDR"

\* The writes of LASTXFER and of TDR of the call so far, in order.
XferSteps == SelectSeq(log, LAMBDA e : IsLastXfer(e) \/ IsTdr(e))

(* C24: in a 16 bit transfer of an even number of bytes on an automatic    *)
(* chip select, LASTXFER is raised exactly once when terminate is set,     *)
(* immediately before the final word is written to TDR and not before an   *)
(* earlier word, and never when terminate is clear.                        *)
C24_LastXferOnce ==
    ( /\ Transferring
      /\ Automatic(M, call.spi)
      /\ Wide(M, call.spi)
      /\ call.len % 2 = 0 ) =>
        LET words == call.len \div 2
            written == Len(SelectSeq(log, IsTdr))
            raised == Len(SelectSeq(log, IsLastXfer))
        IN IF call.terminate /\ written = words
           THEN /\ raised = 1
                /\ Len(XferSteps) = words + 1
                /\ IsLastXfer(XferSteps[words])
           ELSE raised = 0

(* C25: with MISO wired to MOSI, a terminated transfer of N >= 1 bytes on  *)
(* an 8 bit device given both buffers returns N, leaves rx[i] = tx[i] for  *)
(* every i < N and leaves tx as it was.                                    *)
C25_LoopbackEcho ==
    ( /\ Transferring
      /\ call.pc = "done"
      /\ miso = "loopback"
      /\ ~Wide(M, call.spi)
      /\ call.buf = "both"
      /\ call.terminate ) =>
        /\ call.ret = call.len
        /\ Len(mem.rx) = call.len
        /\ \A k \in 1..call.len : mem.rx[k] = TxByte(k)
        /\ mem.tx = [k \in 1..call.len |-> TxByte(k)]

\* tx = [0x55, 0xAA] has come back in rx.
C25_Witness ==
    /\ Transferring
    /\ call.pc = "done"
    /\ miso = "loopback"
    /\ ~Wide(M, call.spi)
    /\ call.buf = "both"
    /\ call.terminate
    /\ call.len = 2
    /\ mem.rx = << 85, 170 >>

\* The words written to TDR by the call so far.
Sent == SelectSeq(log, IsTdr)

(* C26: in a transfer with txbuffer null the k-th word written to TDR is   *)
(* the content the caller's buffer had at that position before the call,   *)
(* whatever was received for the earlier words; a transfer with rxbuffer   *)
(* null stores nothing: the caller's memory stays as it was.               *)
C26_ReadSendsFiller ==
    Transferring =>
        /\ call.buf = "read" =>
               /\ \A k \in 1..Len(Sent) :
                      IsWord(Sent[k].val, (k - 1) * Stride(M, call.spi),
                             Wide(M, call.spi))
               /\ mem.tx = << >>
        /\ call.buf = "write" =>
               /\ mem.tx = CallerMem(call.len, "write").tx
               /\ mem.rx = << >>

\* Two bytes read from a bus that returns all ones: both positions have been
\* overwritten, the second after its filler was sent.
C26_Witness ==
    /\ Transferring
    /\ call.pc = "done"
    /\ call.buf = "read"
    /\ miso = "high"
    /\ ~Wide(M, call.spi)
    /\ call.len = 2
    /\ mem.rx = << 255, 255 >>
    /\ Len(Sent) = 2
    /\ Sent[2].val = RxFill(2)

Powered == PMC /\ SPI.spien

(* C27: the busy-wait has no timeout. While the ready flag is not raised   *)
(* the call makes no step, and with the controller powered down it waits   *)
(* forever; a call returns only after one word write and one read of a     *)
(* raised flag for each of its words; and with the controller powered and  *)
(* completing each word, a transfer of N > 0 words returns.                *)
C27_PollsUntilReady ==
    /\ [][(call.pc = "wait" /\ ~SPI.rdrf) => call' = call]_vars
    /\ []((call.pc = "wait" /\ ~SPI.rdrf /\ ~Powered) => [](call.pc = "wait"))
    /\ []((Transferring /\ call.pc = "done") =>
             /\ Len(Sent) = CallWords
             /\ Len(SelectSeq(log, LAMBDA e : e.reg = "RDR")) = CallWords)
    /\ (Transferring /\ call.pc \in {"loop", "wait"} /\ Powered) ~>
           (Transferring /\ call.pc = "done")

\* A transfer of two words has returned.
C27_Witness ==
    /\ Transferring
    /\ call.pc = "done"
    /\ CallWords = 2
    /\ Powered

\* A transfer waiting on a controller that is powered down.
C27_WitnessBlocked ==
    /\ Transferring
    /\ call.pc = "wait"
    /\ ~Powered

(* C28: when spi_init returns a device, the device has the channel, pin,   *)
(* clock mode, word width and divisor of the configuration it was given    *)
(* (8 bits and a divisor of 128 standing for zero), and also its framing   *)
(* mode and its two delays.                                                *)
C28_CreationConfig ==
    (call.op = "spi_init" /\ call.pc = "done" /\ call.ret # NULL) =>
        LET d == spi_devices[call.ret]
            cfg == call.arg
        IN /\ d.channel = cfg.channel
           /\ d.cs = cfg.cs
           /\ d.mode = cfg.mode
           /\ d.bits = (IF cfg.bits # 0 THEN cfg.bits ELSE 8)
           /\ d.clock_divisor = (IF cfg.clock_divisor # 0 THEN cfg.clock_divisor ELSE 128)
           /\ d.cs_mode = cfg.cs_mode
           /\ d.cs_assert_delay = cfg.cs_assert_delay
           /\ d.cs_negate_delay = cfg.cs_negate_delay

(* C29: a call of a setter writes no register and no pin: the controller,  *)
(* its clock and the pins stay as they were. It changes only the record of *)
(* its device, and the config cache is cleared when it names that device   *)
(* and left as it was when it names another device or none.                *)
C29_SettersDeferred ==
    [][(call.pc = "idle" /\ call'.op \in Setters) =>
           /\ SPI' = SPI
           /\ PMC' = PMC
           /\ PIO' = PIO
           /\ log' = << >>
           /\ spi_devices_num' = spi_devices_num
           /\ spi_devices_enabled' = spi_devices_enabled
           /\ \A d \in Handles \ {call'.spi} : spi_devices'[d] = spi_devices[d]
           /\ spi_config_last' = (IF spi_config_last = call'.spi THEN NULL
                                  ELSE spi_config_last)]_vars

\* A setter has returned with the cache still naming another device.
C29_Witness ==
    /\ call.op \in Setters
    /\ call.pc = "done"
    /\ call.last0 \notin {NULL, call.spi}
    /\ spi_config_last = call.last0
    /\ Cur.cs_mode = "FRAME"

\* A call of spi_shutdown that leaves a device enabled.
PartialShutdown ==
    /\ call.pc = "idle"
    /\ call'.op = "spi_shutdown"
    /\ spi_devices_enabled' # {}

\* No tear-down and no pin change: the hardware and the records are untouched.
NoTearDown ==
    /\ SPI' = SPI
    /\ PMC' = PMC
    /\ PIO' = PIO
    /\ log' = << >>
    /\ spi_devices' = spi_devices

C31_NoMutualExclusion ==
    (Transferring /\ Clocking) =>
        IF call.irq = NULL
        THEN spi_config_last = call.spi
        ELSE /\ spi_config_last = call.irq
             /\ spi_config_last # call.spi
             /\ RegistersMatch(spi_devices[call.irq])

\* The second word of A in flight on the other channel's settings.
C31_Witness ==
    /\ Transferring
    /\ Clocking
    /\ call.irq # NULL
    /\ spi_config_last # call.spi
    /\ Cur.channel # spi_devices[call.irq].channel
    /\ ~RegistersMatch(Cur)

(* C32: called while the controller is enabled, clocked and idle, with the *)
(* last received word already read, spi_write_ready_p returns non-zero.    *)
C32_WriteReadyWhenIdle ==
    ( /\ call.op = "spi_write_ready_p"
      /\ call.pc = "done"
      /\ Powered
      /\ ~SPI.rdrf ) =>
        call.ret # 0

(* C33: after a transfer on device A has returned with terminate clear,    *)
(* the controller is kept for A until A makes a terminated transfer: no    *)
(* word of another device is clocked in between. Stated for the transfers  *)
(* chain records: the unterminated transfer of a device in FRAME framing   *)
(* on a bit-banged chip select was the last call to return.                *)
C33_LockedUntilTerminate ==
    (call.op \in {"spi_transfer", "spi_xferc"} /\ Clocking /\ chain # NULL) =>
        call.spi = chain

\* Bit b of v.
Bit(v, b) == (v \div Pow2(b)) % 2

(* C34: for every channel id, after spi_channel_select the chip-select     *)
(* field of the mode register is not 0xF: of its four bits exactly the one *)
(* at position channel mod 4 is zero, and the variable-peripheral-select   *)
(* bit is clear.                                                           *)
C34_SelectOneZeroBit ==
    call.pc = "selected" =>
        /\ SPI.mr.pcs \in 0..14
        /\ \A b \in 0..3 :
               Bit(SPI.mr.pcs, b) = (IF b = call.arg.channel % 4 THEN 0 ELSE 1)
        /\ SPI.mr.ps = 0

\* Channel 6 has selected the pattern 1011.
C34_Witness ==
    /\ call.pc = "selected"
    /\ call.arg.channel = 6
    /\ SPI.mr.pcs = 11

(* C35: the stored clock divisor of every created device is at least 1.    *)
(* spi_init given a divisor of 0 stores 128, spi_clock_divisor_set given 0 *)
(* stores 1, and spi_clock_speed_set given any speed but 0 stores a        *)
(* divisor of at least 1, also when the speed is above F_CPU and when      *)
(* F_CPU + speed - 1 wraps.                                                *)
C35_DivisorAtLeastOne ==
    /\ \A d \in Handles : spi_devices[d].clock_divisor >= 1
    /\ (call.op = "spi_init" /\ call.pc = "done" /\ call.ret # NULL
           /\ call.arg.clock_divisor = 0) =>
           spi_devices[call.ret].clock_divisor = 128
    /\ (call.op = "spi_clock_divisor_set" /\ call.pc = "done" /\ call.arg = 0) =>
           Cur.clock_divisor = 1
    /\ (call.op = "spi_clock_speed_set" /\ call.pc = "done") =>
           /\ Cur.clock_divisor \in 1..65535
           /\ (call.arg < 0 \/ call.arg > F_CPU) => Cur.clock_divisor = 1

\* The sum has wrapped: the quotient is 0 and the divisor stored is 1.
C35_Witness ==
    /\ call.op = "spi_clock_speed_set"
    /\ call.pc = "done"
    /\ call.arg = -F_CPU + 1
    /\ Cur.clock_divisor = 1

\* The registered devices other than the caller that have a bit-banged chip
\* select on a pin of their own.
OtherBitBanged ==
    {d \in Handles \ {call.spi} :
        /\ spi_devices[d].cs_config = PIO_OUTPUT_HIGH
        /\ spi_devices[d].cs # Cur.cs}

(* C36: when every transfer made so far ended with terminate set, no word  *)
(* is clocked for a device while the bit-banged chip-select pin of another *)
(* registered device is driven low, also after the controller has been     *)
(* shut down and woken again. Under SpecTerm every transfer ends with      *)
(* terminate set.                                                          *)
C36_BusExclusive ==
    (call.op \in {"spi_transfer", "spi_xferc"} /\ Clocking /\ Powered) =>
        \A d \in OtherBitBanged : PIO.cs[spi_devices[d].cs] # PIO_OUTPUT_LOW

(* C37: every word a transfer clocks for a device in TOGGLE or FRAME       *)
(* framing is clocked with the chip select asserted: when the word has     *)
(* been written to TDR cs_active is set and the pin is driven low          *)
(* (bit-banged) or routed to its peripheral function (automatic), for the  *)
(* last word of a terminated transfer and for a transfer of one word too.  *)
C37_ClockedWhileAsserted ==
    (Transferring /\ Clocking /\ Cur.cs_mode \in {"TOGGLE", "FRAME"}) =>
        /\ Cur.cs_active
        /\ PIO.cs[Cur.cs] = (IF Automatic(M, call.spi) THEN Cur.cs_config
                              ELSE PIO_OUTPUT_LOW)

(* C38: when a transfer of length > 0 with terminate set has returned, and *)
(* when spi_xferc has returned, cs_active of the device is clear, in every *)
(* framing mode, with either kind of chip select and whatever cs_active    *)
(* was on entry.                                                           *)
C38_ReleasedOnReturn ==
    ( /\ call.pc = "done"
      /\ \/ call.op = "spi_xferc"
         \/ call.op = "spi_transfer" /\ call.len > 0 /\ call.terminate ) =>
        ~Cur.cs_active

(* C39: every write of a controller register (a CSR, MR, CR or TDR) is     *)
(* made with the peripheral clock of the controller enabled.               *)
C39_NoWriteUnpowered ==
    \A k \in 1..Len(log) : IsRegister(log[k]) => log[k].clk

\* The call changes nothing of the driver or the hardware and writes nothing.
NoEffect ==
    /\ spi_devices_num' = spi_devices_num
    /\ spi_devices' = spi_devices
    /\ spi_config_last' = spi_config_last
    /\ spi_devices_enabled' = spi_devices_enabled
    /\ SPI' = SPI
    /\ PMC' = PMC
    /\ PIO' = PIO
    /\ log' = << >>

\* spi_wakeup of an enabled device and spi_shutdown of a device not enabled
\* change nothing.
Idempotent ==
    [][(call.pc = "idle" /\
          \/ call'.op = "spi_wakeup" /\ call'.spi \in spi_devices_enabled
          \/ call'.op = "spi_shutdown" /\ call'.spi \notin spi_devices_enabled)
       => NoEffect]_vars

(* C40: spi_wakeup of a device that is awake and spi_shutdown of a device  *)
(* that is asleep change no bit, no register, no pin and not the cache;    *)
(* the enabled devices are a set, not a count: after spi_shutdown the      *)
(* device is asleep and after spi_wakeup awake, however often it was woken *)
(* before; and only created devices are ever enabled.                      *)
C40_IdempotentLifecycle ==
    /\ Idempotent
    /\ [](spi_devices_enabled \subseteq Handles)
    /\ []((call.op = "spi_shutdown" /\ call.pc = "done") =>
             spi_devices_enabled = call.enabled0 \ {call.spi})
    /\ []((call.op = "spi_wakeup" /\ call.pc = "done") =>
             spi_devices_enabled = call.enabled0 \cup {call.spi})

\* spi_shutdown of a device that is asleep, while another is awake and the
\* cache names a device, has returned.
C40_Witness ==
    /\ call.op = "spi_shutdown"
    /\ call.pc = "done"
    /\ call.spi \notin call.enabled0
    /\ spi_devices_enabled # {}
    /\ spi_config_last # NULL
    /\ call.last0 = spi_config_last

====
